---- MODULE Spec2Model ----
(***************************************************************************)
(* Model of the ExcelProcessPython repository:                             *)
(*   - CPR_Invoice.process_file      (fee classification of invoice rows)  *)
(*   - excel_processing.process_excel (normalise, validate, sort, COUNT,   *)
(*     filter, export)                                                     *)
(* Python text is modelled as a sequence of one-character strings, so that *)
(* strip(), upper(), replace(), int() and float() are computed, not        *)
(* assumed.  A table cell is a record [t, s, v]: t = "nan" (missing),      *)
(* "str" (text s), "int" (integer v) or "float" (v hundredths).            *)
(***************************************************************************)
EXTENDS Integers, Sequences, FiniteSets, TLC

VARIABLES
    fee_file,          \* the file handed to process_file: [ext, rows]
    fee_pc,            \* position in process_file
    fee_df,            \* df after read_file and fillna("Null")
    fee_idx,           \* next row of df.iterrows() (1-based)
    standard_fee,      \* list standard_fee
    non_standard_fee,  \* list non_standard_fee
    fee_log,           \* "Skipping row N due to error" warnings, in order
    fee_result,        \* the dict process_file returns
    xl_call,           \* process_excel's arguments: [file, output_file_path, config_key]
    xl_pc,             \* position in process_excel
    data_frame,        \* the DataFrame process_excel works on
    filtered,          \* (filtered_df, filtered_list) of filter_vins_with_count_one
    xl_error,          \* what the except clauses of process_excel logged
    steps,             \* the functions process_excel has called, in order
    disk,              \* output path -> the artifact written there
    filtered_records_file1,   \* module globals of excel_processing
    filtered_records_file2,
    main_pc,           \* position in invoice_mailer.main ("none": main is not running)
    mail_out           \* outcome of send_mail_notification

fee_vars == <<fee_file, fee_pc, fee_df, fee_idx, standard_fee, non_standard_fee,
              fee_log, fee_result>>

xl_vars == <<xl_call, xl_pc, data_frame, filtered, xl_error, steps, disk,
             filtered_records_file1, filtered_records_file2>>

main_vars == <<main_pc, mail_out>>

vars == <<fee_vars, xl_vars, main_vars>>

(***************************************************************************)
(* Bounds of the model.                                                    *)
(***************************************************************************)
MaxFeeRows == 3
MaxRows == 2
MaxSortRows == 3

(***************************************************************************)
(* Python text primitives.                                                 *)
(***************************************************************************)
\* The characters the model uses, in code-point order.
Alphabet ==
    <<" ", "#", "$", "+", ",", "-", ".",
      "0", "1", "2", "3", "4", "5", "6", "7", "8", "9",
      "A", "B", "C", "D", "E", "F", "G", "H", "I", "J", "K", "L", "M",
      "N", "O", "P", "Q", "R", "S", "T", "U", "V", "W", "X", "Y", "Z",
      "a", "b", "c", "d", "e", "f", "g", "h", "i", "j", "k", "l", "m",
      "n", "o", "p", "q", "r", "s", "t", "u", "v", "w", "x", "y", "z">>

Ord(c) == CHOOSE i \in 1..Len(Alphabet) : Alphabet[i] = c

Digits == <<"0", "1", "2", "3", "4", "5", "6", "7", "8", "9">>

IsDigit(c) == \E d \in 1..10 : Digits[d] = c

DigitVal(c) == (CHOOSE d \in 1..10 : Digits[d] = c) - 1

LowerCase ==
    <<"a", "b", "c", "d", "e", "f", "g", "h", "i", "j", "k", "l", "m",
      "n", "o", "p", "q", "r", "s", "t", "u", "v", "w", "x", "y", "z">>

UpperCase ==
    <<"A", "B", "C", "D", "E", "F", "G", "H", "I", "J", "K", "L", "M",
      "N", "O", "P", "Q", "R", "S", "T", "U", "V", "W", "X", "Y", "Z">>

\* c.upper() of one character
char_upper(c) ==
    IF \E k \in 1..26 : LowerCase[k] = c
    THEN UpperCase[CHOOSE k \in 1..26 : LowerCase[k] = c]
    ELSE c

\* Op applied to the value of v: v is evaluated once, whatever the number of
\* times Op uses its argument
Val(Op(_), v) == CHOOSE r \in {Op(x) : x \in {v}} : TRUE

\* str.upper()
str_upper(text) ==
    Val(LAMBDA s :
            [i \in 1..Len(s) |-> char_upper(s[i])] \o <<>>,
        text)

\* str.strip(): drops leading and trailing whitespace
str_strip(text) ==
    Val(LAMBDA s :
            Val(LAMBDA keep :
                    IF keep = {} THEN <<>>
                    ELSE SubSeq(s, CHOOSE i \in keep : \A j \in keep : i <= j,
                                   CHOOSE i \in keep : \A j \in keep : j <= i),
                {i \in 1..Len(s) : s[i] # " "}),
        text)

\* str.replace(c, ''): drops every occurrence of the character c
str_remove(s, c) == SelectSeq(s, LAMBDA x : x # c)

\* Python's < on str: lexicographic by code point
str_less(ta, tb) ==
    Val(LAMBDA p :
            LET a == p[1]
                b == p[2]
                diff == {i \in 1..Len(a) : i > Len(b) \/ a[i] # b[i]}
            IN  IF diff = {} THEN Len(a) < Len(b)
                ELSE LET k == CHOOSE i \in diff : \A j \in diff : i <= j
                     IN  k <= Len(b) /\ Ord(a[k]) < Ord(b[k]),
        <<ta, tb>>)

\* the number a text of digits denotes
DigitsValue(text) ==
    Val(LAMBDA s :
            LET RECURSIVE upto(_)
                upto(n) == IF n = 0 THEN 0 ELSE 10 * upto(n - 1) + DigitVal(s[n])
            IN  upto(Len(s)),
        text)

AllDigits(s) == s # <<>> /\ \A i \in 1..Len(s) : IsDigit(s[i])

\* int(text): [ok, v]; ok = FALSE stands for the ValueError int() raises
py_int(text) ==
    Val(LAMBDA s :
            LET neg  == s # <<>> /\ Head(s) = "-"
                body == IF s # <<>> /\ Head(s) \in {"-", "+"} THEN Tail(s) ELSE s
            IN  IF AllDigits(body)
                THEN [ok |-> TRUE,
                      v |-> IF neg THEN 0 - DigitsValue(body) ELSE DigitsValue(body)]
                ELSE [ok |-> FALSE, v |-> 0],
        str_strip(text))

\* float(text) for decimal literals of at most two fraction digits:
\* [ok, v] with v in hundredths; ok = FALSE stands for the ValueError
py_float(text) ==
    Val(LAMBDA s :
            LET neg  == s # <<>> /\ Head(s) = "-"
                body == IF s # <<>> /\ Head(s) \in {"-", "+"} THEN Tail(s) ELSE s
                dots == {i \in 1..Len(body) : body[i] = "."}
                dot  == IF dots = {} THEN Len(body) + 1 ELSE CHOOSE i \in dots : TRUE
                ip   == SubSeq(body, 1, dot - 1)
                fp   == SubSeq(body, dot + 1, Len(body))
                ok   == /\ Cardinality(dots) <= 1
                        /\ Len(body) - Cardinality(dots) > 0
                        /\ \A i \in 1..Len(body) : i \in dots \/ IsDigit(body[i])
                        /\ Len(fp) <= 2
                mag  == 100 * DigitsValue(ip)
                        + (IF Len(fp) = 0 THEN 0
                           ELSE IF Len(fp) = 1 THEN 10 * DigitsValue(fp)
                           ELSE DigitsValue(fp))
            IN  IF ok THEN [ok |-> TRUE, v |-> IF neg THEN 0 - mag ELSE mag]
                ELSE [ok |-> FALSE, v |-> 0],
        str_strip(text))

RECURSIVE NatToStr(_)
NatToStr(n) ==
    IF n < 10 THEN <<Digits[n + 1]>> ELSE NatToStr(n \div 10) \o <<Digits[(n % 10) + 1]>>

IntToStr(n) == IF n < 0 THEN <<"-">> \o NatToStr(0 - n) ELSE NatToStr(n)

\* str(x) of a float held in hundredths: 85.0 -> "85.0", 1.6 -> "1.6", 1.25 -> "1.25"
FloatToStr(h) ==
    LET m    == IF h < 0 THEN 0 - h ELSE h
        frac == m % 100
        fs   == IF frac % 10 = 0 THEN <<Digits[(frac \div 10) + 1]>>
                ELSE <<Digits[(frac \div 10) + 1], Digits[(frac % 10) + 1]>>
    IN  (IF h < 0 THEN <<"-">> ELSE <<>>) \o NatToStr(m \div 100) \o <<".">> \o fs

(***************************************************************************)
(* Table cells.                                                            *)
(***************************************************************************)
NaN == [t |-> "nan", s |-> <<>>, v |-> 0]

StrCell(s) == [t |-> "str", s |-> s, v |-> 0]

IntCell(n) == [t |-> "int", s |-> <<>>, v |-> n]

FloatCell(h) == [t |-> "float", s |-> <<>>, v |-> h]

\* pd.isna(x)
pd_isna(x) == x.t = "nan"

\* str(x)
py_str(x) ==
    CASE x.t = "str"   -> x.s
      [] x.t = "int"   -> IntToStr(x.v)
      [] x.t = "float" -> FloatToStr(x.v)
      [] OTHER         -> <<"n", "a", "n">>

NullText == <<"N", "u", "l", "l">>

(***************************************************************************)
(* CPR_Invoice.py: fee classification.                                     *)
(***************************************************************************)
\* Amounts 85 and 140 are the standard fees (the list in process_file).
StandardFeeA == 85
StandardFeeB == 140

\* The input rows of the model.  A row holds the four columns process_file
\* reads: "Claim #", "Contact", "Insured", "Amount".
FeeRow(ids, a) == [claim |-> ids[1], contact |-> ids[2], insured |-> ids[3], amount |-> a]

TextC1 == <<"C", "1">>

PresentIds == <<StrCell(TextC1), StrCell(TextC1), StrCell(TextC1)>>

\* all three cells empty; sentinel text (padded or not); one field present;
\* cells that hold only spaces (text, not empty)
EmptyIds == <<NaN, NaN, NaN>>
SentinelIds == <<StrCell(<<" ">> \o NullText \o <<" ">>), NaN, StrCell(NullText)>>
PartialIds == <<NaN, NaN, StrCell(TextC1)>>
SpacesIds == <<StrCell(<<" ">>), StrCell(<<" ">>), StrCell(<<" ">>)>>

FeeAmounts ==
    { IntCell(85), NaN,
      StrCell(<<"$", "1", "4", "0">>), StrCell(<<"8", "6">>),
      StrCell(<<"$", "8", "5", ".", "0", "0">>),
      StrCell(<<"$", "8", "6", ".", "0", "0">>),
      StrCell(<<"a", "b", "c">>) }

FeeRows ==
    {FeeRow(PresentIds, a) : a \in FeeAmounts}
    \cup {FeeRow(ids, IntCell(85)) : ids \in {EmptyIds, SentinelIds, PartialIds, SpacesIds}}
    \cup {FeeRow(EmptyIds, StrCell(<<"a", "b", "c">>))}

\* the sequences over S of length at most n
SeqsUpTo(S, n) == UNION {[1..k -> S] : k \in 0..n}

FeeExts == {".csv", ".XLSX", ".txt"}

ExtLower(e) == IF e = ".XLSX" THEN ".xlsx" ELSE e

\* read_file: the extension dispatch; TRUE when a DataFrame is returned,
\* FALSE when ValueError is raised
read_file_ok(ext) ==
    IF ExtLower(ext) = ".csv" THEN TRUE
    ELSE IF ExtLower(ext) \in {".xls", ".xlsx"}
         THEN ext = ".xlsx" \/ ext = ".xls"
         ELSE FALSE

\* df.fillna("Null")
fillna_null(rows) ==
    [i \in 1..Len(rows) |->
        [f \in DOMAIN rows[i] |-> IF pd_isna(rows[i][f]) THEN StrCell(NullText) ELSE rows[i][f]]]

\* removespecialcharacters(val): [ok, v]; ok = FALSE is the ValueError of int()
removespecialcharacters(val) ==
    py_int(str_strip(str_remove(str_remove(py_str(val), "$"), ",")))

\* clean_value(val): the text put into the record
clean_value(val) ==
    IF pd_isna(val) THEN NullText
    ELSE Val(LAMBDA num :
                 IF num.ok
                 THEN (IF num.v % 100 = 0 THEN IntToStr(num.v \div 100) ELSE FloatToStr(num.v))
                 ELSE str_strip(py_str(val)),
             py_float(str_strip(str_remove(str_remove(py_str(val), "$"), ","))))

\* build_record(row), for the columns the model carries (every other field of
\* the record is clean_value(None) = "Null"); src is the row's position in df
build_record(row, index) ==
    [ src            |-> index,
      claimNumber    |-> clean_value(row.claim),
      amount         |-> clean_value(row.amount),
      contractNumber |-> clean_value(row.contact),
      insured        |-> clean_value(row.insured) ]

\* one field of the identity guard
IsNullField(val) == pd_isna(val) \/ str_strip(py_str(val)) = NullText

\* a guard that tests pd.isna only (after fillna no cell is NaN)
IdentityMissing_isna_only(row) ==
    pd_isna(row.claim) /\ pd_isna(row.contact) /\ pd_isna(row.insured)

\* the "critical fields are missing" condition
IdentityMissing(row) ==
    IsNullField(row.claim) /\ IsNullField(row.contact) /\ IsNullField(row.insured)

\* the loop body with the else branch lost: every accepted row is appended to
\* non_standard_fee, standard rows to both lists
process_row_no_else(row, index, acc) ==
    IF IdentityMissing(row)
    THEN [acc EXCEPT !.log = Append(@, [row |-> index + 1, err |-> "Required fields missing"])]
    ELSE LET amount_val == removespecialcharacters(row.amount)
         IN  IF ~amount_val.ok
             THEN [acc EXCEPT !.log = Append(@, [row |-> index + 1, err |-> "invalid literal for int()"])]
             ELSE LET record == build_record(row, index)
                      a1 == IF amount_val.v \in {StandardFeeA, StandardFeeB}
                            THEN [acc EXCEPT !.standard_fee = Append(@, record)]
                            ELSE acc
                  IN  [a1 EXCEPT !.non_standard_fee = Append(@, record)]

\* the body of the for loop over df.iterrows(), for the row at position index
\* (1-based; the code's index + 2 is index + 1 here); acc holds the two lists
\* and the warnings logged so far
process_row(row, index, acc) ==
    IF IdentityMissing(row)
    THEN [acc EXCEPT !.log = Append(@, [row |-> index + 1, err |-> "Required fields missing"])]
    ELSE LET amount_val == removespecialcharacters(row.amount)
         IN  IF ~amount_val.ok
             THEN [acc EXCEPT !.log = Append(@, [row |-> index + 1, err |-> "invalid literal for int()"])]
             ELSE LET record == build_record(row, index)
                  IN  IF amount_val.v \in {StandardFeeA, StandardFeeB}
                      THEN [acc EXCEPT !.standard_fee = Append(@, record)]
                      ELSE [acc EXCEPT !.non_standard_fee = Append(@, record)]

\* process_file has not been called
FeeIdle ==
    /\ fee_pc = "start"
    /\ fee_df = <<>>
    /\ fee_idx = 1
    /\ standard_fee = <<>>
    /\ non_standard_fee = <<>>
    /\ fee_log = <<>>
    /\ fee_result = [status |-> "none"]

\* process_file up to the loop: read_file and fillna
FeeReadFile ==
    /\ fee_pc = "start"
    /\ IF read_file_ok(fee_file.ext)
       THEN /\ fee_df' = fillna_null(fee_file.rows)
            /\ fee_pc' = "rows"
            /\ fee_result' = fee_result
       ELSE /\ fee_df' = fee_df
            /\ fee_pc' = "failed"
            /\ fee_result' = [status |-> "raised"]
    /\ UNCHANGED <<fee_file, fee_idx, standard_fee, non_standard_fee, fee_log>>
    /\ UNCHANGED <<xl_vars, main_vars>>

\* one iteration of the loop
FeeProcessRow ==
    /\ fee_pc = "rows"
    /\ fee_idx <= Len(fee_df)
    /\ \E acc \in {process_row(fee_df[fee_idx], fee_idx,
                               [standard_fee |-> standard_fee,
                                non_standard_fee |-> non_standard_fee,
                                log |-> fee_log])} :
           /\ standard_fee' = acc.standard_fee
           /\ non_standard_fee' = acc.non_standard_fee
           /\ fee_log' = acc.log
    /\ fee_idx' = fee_idx + 1
    /\ UNCHANGED <<fee_file, fee_pc, fee_df, fee_result>>
    /\ UNCHANGED <<xl_vars, main_vars>>

\* the loop is exhausted: process_file returns the two lists
FeeReturn ==
    /\ fee_pc = "rows"
    /\ fee_idx > Len(fee_df)
    /\ fee_result' = [status |-> "returned",
                      standardFee |-> standard_fee,
                      nonStandardFee |-> non_standard_fee]
    /\ fee_pc' = "done"
    /\ UNCHANGED <<fee_file, fee_df, fee_idx, standard_fee, non_standard_fee, fee_log>>
    /\ UNCHANGED <<xl_vars, main_vars>>

FeeNext == FeeReadFile \/ FeeProcessRow \/ FeeReturn

(***************************************************************************)
(* Claims about process_file.                                              *)
(***************************************************************************)
\* a cell of the input file that is blank (empty) or holds the sentinel "Null"
BlankCell(c) == c.t = "nan" \/ (c.t = "str" /\ str_strip(c.s) = NullText)

AllBlank(r) == BlankCell(r.claim) /\ BlankCell(r.contact) /\ BlankCell(r.insured)

InStandard(i) == \E k \in 1..Len(standard_fee) : standard_fee[k].src = i

InNonStandard(i) == \E k \in 1..Len(non_standard_fee) : non_standard_fee[k].src = i

InErrors(i) == \E k \in 1..Len(fee_log) : fee_log[k].row = i + 1

BoolToNat(b) == IF b THEN 1 ELSE 0

\* C1: when process_file has iterated over all rows, the records of standardFee,
\* those of nonStandardFee and the rows skipped with a logged error add up to
\* the input rows, and every input row is in exactly one of the three.
C1_PartitionComplete ==
    fee_pc = "done" =>
        /\ Len(fee_result.standardFee) + Len(fee_result.nonStandardFee) + Len(fee_log)
               = Len(fee_file.rows)
        /\ fee_result.standardFee = standard_fee
        /\ fee_result.nonStandardFee = non_standard_fee
        /\ \A i \in 1..Len(fee_file.rows) :
               BoolToNat(InStandard(i)) + BoolToNat(InNonStandard(i)) + BoolToNat(InErrors(i)) = 1

C1_Witness ==
    /\ fee_pc = "done"
    /\ standard_fee # <<>>
    /\ non_standard_fee # <<>>
    /\ fee_log # <<>>

\* the Amount of the claim: '$', ',' and whitespace stripped, read as a number
\* (hundredths); ok = FALSE when it is no number
ClaimedAmount(c) ==
    IF c.t = "nan" THEN [ok |-> FALSE, v |-> 0]
    ELSE py_float(str_strip(str_remove(str_remove(py_str(c), "$"), ",")))

ClaimedStandard(c) ==
    ClaimedAmount(c).ok /\ ClaimedAmount(c).v \in {100 * StandardFeeA, 100 * StandardFeeB}

\* C2: every row that passes the identity guard goes to standardFee when its
\* Amount is 85 or 140 and to nonStandardFee otherwise, also when the Amount
\* does not coerce; "$85.00" goes to standardFee, "abc" to nonStandardFee.
C2_FeePredicate ==
    fee_pc = "done" =>
        \A i \in 1..Len(fee_file.rows) :
            ~AllBlank(fee_file.rows[i]) =>
                IF ClaimedStandard(fee_file.rows[i].amount)
                THEN InStandard(i) /\ ~InNonStandard(i)
                ELSE InNonStandard(i) /\ ~InStandard(i)

ColVIN == <<"V", "I", "N">>
ColTERM == <<"T", "E", "R", "M">>
ColSTART == <<"S", "T", "A", "R", "T", " ", "D", "A", "T", "E">>
ColPRICE == <<"P", "R", "I", "C", "E">>
ColFORM == <<"F", "O", "R", "M">>
ColPRT == <<"P", "U", "R", "E", " ", "R", "I", "S", "K", " ", "T", "Y", "P", "E">>
ColCOUNT == <<"C", "O", "U", "N", "T">>
TextKEY == <<"K", "E", "Y">>
TextROADSIDE == <<"R", "O", "A", "D", "S", "I", "D", "E">>

\* 1.6, in hundredths
PriceTrigger == 160

ConfigKeys == {"default", "custom_file_2"}

PROCESSING_CONFIGS ==
    [k \in ConfigKeys |->
        IF k = "default"
        THEN [ required_columns |-> <<ColVIN, ColTERM, ColSTART, ColPRICE>>,
               sort_by          |-> <<[col |-> ColVIN, asc |-> TRUE],
                                      [col |-> ColPRICE, asc |-> FALSE]>>,
               count_formula    |-> "filtration_for_file_1",
               export_columns   |-> "ALL" ]
        ELSE [ required_columns |-> <<ColFORM, ColVIN, ColPRT>>,
               sort_by          |-> <<[col |-> ColFORM, asc |-> TRUE],
                                      [col |-> ColVIN, asc |-> TRUE],
                                      [col |-> ColPRT, asc |-> TRUE]>>,
               count_formula    |-> "filtration_for_file_2",
               export_columns   |-> "ALL" ]]

Range(q) == {q[i] : i \in 1..Len(q)}

NoFrame == [columns |-> <<>>, rows |-> <<>>, original_columns |-> <<>>]

\* read_input_file(file_path): [ok, err, df].  The DataFrame has the renamed
\* columns, the rows in file order (origin = the row's position in the file)
\* with every text cell stripped, and attrs['original_columns'].
read_input_file(file) ==
    IF ~file.exists THEN [ok |-> FALSE, err |-> "FileNotFoundError", df |-> NoFrame]
    ELSE IF file.ext \notin {".xlsx", ".csv"}
    THEN [ok |-> FALSE, err |-> "ValueError", df |-> NoFrame]
    ELSE
    Val(LAMBDA h :
            \* h.stripped[i] = col.strip(), h.canon[i] = col.strip().upper()
            LET n == Len(h.stripped)
                keys == Range(h.canon)
                \* the dict comprehension: a later column of the same key overwrites
                last(k) == CHOOSE i \in 1..n :
                               h.canon[i] = k /\ \A j \in (i + 1)..n : h.canon[j] # k
                \* rename(columns={value: key}): a column is renamed when its
                \* name is a value of original_columns
                renamed(c) == IF \E k \in keys : h.stripped[last(k)] = c
                              THEN CHOOSE k \in keys : h.stripped[last(k)] = c
                              ELSE c
                strip_cell(x) == IF x.t = "str" THEN StrCell(str_strip(x.s)) ELSE x
            IN  [ok  |-> TRUE,
                 err |-> "none",
                 df  |-> [columns |-> [i \in 1..n |-> renamed(file.columns[i])] \o <<>>,
                          rows |-> [r \in 1..Len(file.rows) |->
                                       [origin |-> r,
                                        cells  |-> [i \in 1..n |-> strip_cell(file.rows[r][i])]
                                                   \o <<>>]] \o <<>>,
                          original_columns |-> [k \in keys |-> h.stripped[last(k)]]]],
        Val(LAMBDA st : [stripped |-> st,
                         canon |-> [i \in 1..Len(st) |-> str_upper(st[i])] \o <<>>],
            [i \in 1..Len(file.columns) |-> str_strip(file.columns[i])] \o <<>>))

\* validate_columns: the list missing_cols (empty: no exception)
validate_columns(df, required_columns) ==
    SelectSeq(required_columns, LAMBDA c : c \notin Range(df.columns))

\* df[name]: the position of the column called name
col_index(df, name) == CHOOSE i \in 1..Len(df.columns) : df.columns[i] = name

\* df[name] = values: an existing column is overwritten, a new one appended
set_column(df, name, values) ==
    IF name \in Range(df.columns)
    THEN [df EXCEPT !.rows = [r \in 1..Len(df.rows) |->
                                 [df.rows[r] EXCEPT !.cells[col_index(df, name)] = values[r]]]]
    ELSE [df EXCEPT !.columns = Append(@, name),
                    !.rows = [r \in 1..Len(df.rows) |->
                                 [df.rows[r] EXCEPT !.cells = Append(@, values[r])]]]

\* pd.to_numeric(x, errors='coerce') of one cell
to_numeric(x) ==
    CASE x.t = "str"   -> Val(LAMBDA f : IF f.ok THEN FloatCell(f.v) ELSE NaN, py_float(x.s))
      [] x.t = "int"   -> FloatCell(100 * x.v)
      [] OTHER         -> x

\* a comparison that ignores the ascending flag
key_cmp_all_ascending(x, y, asc) ==
    IF x.t = "nan" /\ y.t = "nan" THEN 0
    ELSE IF x.t = "nan" THEN 1
    ELSE IF y.t = "nan" THEN 0 - 1
    ELSE IF x = y THEN 0
    ELSE IF (IF x.t = "str" THEN str_less(x.s, y.s) ELSE x.v < y.v) THEN 0 - 1 ELSE 1

\* the order sort_values gives two cells of a key column: -1 when x sorts
\* before y, 1 when after, 0 when they tie.  NaN is placed last whatever the
\* direction (na_position='last').
key_cmp(x, y, asc) ==
    IF x.t = "nan" /\ y.t = "nan" THEN 0
    ELSE IF x.t = "nan" THEN 1
    ELSE IF y.t = "nan" THEN 0 - 1
    ELSE IF x = y THEN 0
    ELSE IF (IF x.t = "str" THEN str_less(x.s, y.s) ELSE x.v < y.v) = asc THEN 0 - 1 ELSE 1

\* row a sorts strictly before row b on the keys (each [idx, asc]), compared
\* key by key in the given order
row_before(a, b, keys) ==
    \E k \in 1..Len(keys) :
        /\ \A j \in 1..(k - 1) : key_cmp(a.cells[keys[j].idx], b.cells[keys[j].idx], keys[j].asc) = 0
        /\ key_cmp(a.cells[keys[k].idx], b.cells[keys[k].idx], keys[k].asc) = 0 - 1

\* an insertion point that puts a row in front of the rows it ties with
insert_position_before_ties(sorted, r, keys) ==
    Cardinality({i \in 1..Len(sorted) : row_before(sorted[i], r, keys)})

\* where a stable sort puts row r, which came after the rows of sorted in the
\* input: behind every row that does not sort strictly after it
insert_position(sorted, r, keys) ==
    Cardinality({i \in 1..Len(sorted) : ~row_before(r, sorted[i], keys)})

RECURSIVE sort_prefix(_, _, _)
sort_prefix(rows, n, keys) ==
    IF n = 0 THEN <<>>
    ELSE Val(LAMBDA sorted :
                 Val(LAMBDA p : SubSeq(sorted, 1, p) \o <<rows[n]>> \o SubSeq(sorted, p + 1, Len(sorted)),
                     insert_position(sorted, rows[n], keys)),
             sort_prefix(rows, n - 1, keys))

\* sort_values(by, ascending, kind='mergesort'): the stable ordering of the rows
sort_values(rows, keys) == Val(LAMBDA rs : sort_prefix(rs, Len(rs), keys), rows)

\* preprocess_data(data_frame, sort_by)
preprocess_data(df0, sort_by) ==
    Val(LAMBDA df :
            LET numeric ==
                    IF ColPRICE \in Range(df.columns)
                    THEN [r \in 1..Len(df.rows) |->
                             [df.rows[r] EXCEPT !.cells[col_index(df, ColPRICE)] = to_numeric(@)]]
                    ELSE df.rows
                keys == [k \in 1..Len(sort_by) |->
                            [idx |-> col_index(df, sort_by[k].col), asc |-> sort_by[k].asc]]
            IN  [df EXCEPT !.rows = sort_values(numeric, keys)],
        df0)

\* an == that holds of two missing values
pd_eq_nan_equal(a, b) == a = b

\* the elementwise == of two cells: a missing value equals nothing
pd_eq(a, b) == a.t # "nan" /\ b.t # "nan" /\ a = b

\* series.shift(1) at row r
shift1(df, r, i) == IF r = 1 THEN NaN ELSE df.rows[r - 1].cells[i]

BoolCell(b) == IntCell(IF b THEN 1 ELSE 0)

\* calculate_count_column without the START DATE comparison
calculate_count_column_no_date(df0) ==
    Val(LAMBDA df :
            LET vi == col_index(df, ColVIN)
                ti == col_index(df, ColTERM)
                pi == col_index(df, ColPRICE)
            IN  set_column(df, ColCOUNT,
                    [r \in 1..Len(df.rows) |->
                        BoolCell(/\ pd_eq(df.rows[r].cells[vi], shift1(df, r, vi))
                                 /\ pd_eq(df.rows[r].cells[ti], shift1(df, r, ti))
                                 /\ pd_eq(df.rows[r].cells[pi], FloatCell(PriceTrigger)))]),
        df0)

\* calculate_count_column(data_frame)
calculate_count_column(df0) ==
    Val(LAMBDA df :
            LET vi == col_index(df, ColVIN)
                ti == col_index(df, ColTERM)
                si == col_index(df, ColSTART)
                pi == col_index(df, ColPRICE)
            IN  set_column(df, ColCOUNT,
                    [r \in 1..Len(df.rows) |->
                        BoolCell(/\ pd_eq(df.rows[r].cells[vi], shift1(df, r, vi))
                                 /\ pd_eq(df.rows[r].cells[ti], shift1(df, r, ti))
                                 /\ pd_eq(df.rows[r].cells[si], shift1(df, r, si))
                                 /\ pd_eq(df.rows[r].cells[pi], FloatCell(PriceTrigger)))]),
        df0)

\* series.str.upper() of one cell
upper_cell(x) == IF x.t = "str" THEN StrCell(str_upper(x.s)) ELSE NaN

\* calculate_count_custom_e2 comparing PURE RISK TYPE as it is spelled
calculate_count_custom_e2_case_sensitive(df0) ==
    Val(LAMBDA df :
            LET fi == col_index(df, ColFORM)
                vi == col_index(df, ColVIN)
                ri == col_index(df, ColPRT)
            IN  [ok |-> TRUE,
                 df |-> set_column(df, ColCOUNT,
                    [r \in 1..Len(df.rows) |->
                        BoolCell(/\ pd_eq(df.rows[r].cells[fi], shift1(df, r, fi))
                                 /\ pd_eq(df.rows[r].cells[vi], shift1(df, r, vi))
                                 /\ pd_eq(shift1(df, r, ri), StrCell(TextKEY))
                                 /\ pd_eq(df.rows[r].cells[ri], StrCell(TextROADSIDE)))])],
        df0)

\* calculate_count_custom_e2(data_frame): [ok, df]; ok = FALSE is its ValueError
calculate_count_custom_e2(df0) ==
    Val(LAMBDA df :
            IF ~({ColFORM, ColVIN, ColPRT} \subseteq Range(df.columns))
            THEN [ok |-> FALSE, df |-> df]
            ELSE
            LET fi == col_index(df, ColFORM)
                vi == col_index(df, ColVIN)
                ri == col_index(df, ColPRT)
            IN  [ok |-> TRUE,
                 df |-> set_column(df, ColCOUNT,
                    [r \in 1..Len(df.rows) |->
                        BoolCell(/\ pd_eq(df.rows[r].cells[fi], shift1(df, r, fi))
                                 /\ pd_eq(df.rows[r].cells[vi], shift1(df, r, vi))
                                 /\ pd_eq(upper_cell(shift1(df, r, ri)), StrCell(TextKEY))
                                 /\ pd_eq(upper_cell(df.rows[r].cells[ri]), StrCell(TextROADSIDE)))])],
        df0)

\* apply_count_formula(data_frame, formula_key): [ok, df]
apply_count_formula(df, formula_key) ==
    IF formula_key = "filtration_for_file_1"
    THEN [ok |-> TRUE, df |-> calculate_count_column(df)]
    ELSE IF formula_key = "filtration_for_file_2"
    THEN calculate_count_custom_e2(df)
    ELSE [ok |-> FALSE, df |-> df]

\* filter_vins_with_count_one(data_frame, export_columns):
\* [ok, final_df, record_list]
filter_vins_with_count_one(df0, export_columns) ==
    Val(LAMBDA df :
            IF ColCOUNT \notin Range(df.columns)
            THEN [ok |-> FALSE, final_df |-> NoFrame, record_list |-> <<>>]
            ELSE
            LET ci   == col_index(df, ColCOUNT)
                rows == SelectSeq(df.rows, LAMBDA r : r.cells[ci] = IntCell(1))
                oc   == df.original_columns
                cols == [i \in 1..Len(df.columns) |->
                            IF df.columns[i] \in DOMAIN oc THEN oc[df.columns[i]]
                            ELSE df.columns[i]]
                lastof(h) == CHOOSE i \in 1..Len(cols) :
                                 cols[i] = h /\ \A j \in 1..Len(cols) : cols[j] = h => j <= i
            IN  [ok |-> TRUE,
                 final_df |-> [columns |-> cols, rows |-> rows, original_columns |-> oc],
                 record_list |-> [r \in 1..Len(rows) |->
                                     [h \in Range(cols) |-> rows[r].cells[lastof(h)]]]],
        df0)

\* export_dataframe: the format the path's ending selects ("" when unsupported)
export_format(path) ==
    IF path \in {"filtered_vins1.xlsx"} THEN ".xlsx"
    ELSE IF path \in {"filtered_vins2.csv"} THEN ".csv"
    ELSE ""

\* what to_excel / to_csv write (index=False): the header and the cells
written(df) == [columns |-> df.columns,
                rows |-> [r \in 1..Len(df.rows) |-> df.rows[r].cells]]

OutPaths == {"filtered_vins1.xlsx", "filtered_vins2.csv", "filtered_vins.txt"}

NoError == [kind |-> "none", msg |-> "", cols |-> <<>>]

NoFiltered == [final_df |-> NoFrame, record_list |-> <<>>]

Unset == [defined |-> FALSE, records |-> <<>>]

\* the module is imported and process_excel has not been called: the two
\* globals are not bound yet
XlIdle ==
    /\ xl_call = [file |-> [exists |-> FALSE, ext |-> "", columns |-> <<>>, rows |-> <<>>],
                  output_file_path |-> "", config_key |-> ""]
    /\ xl_pc = "idle"
    /\ data_frame = NoFrame
    /\ filtered = NoFiltered
    /\ xl_error = NoError
    /\ steps = <<>>
    /\ disk = [p \in OutPaths |-> [exists |-> FALSE, columns |-> <<>>, rows |-> <<>>]]
    /\ filtered_records_file1 = Unset
    /\ filtered_records_file2 = Unset

Config == PROCESSING_CONFIGS[xl_call.config_key]

\* process_excel(file_path, output_file_path, config_key) is called: the
\* config lookup
Enter(call) ==
    /\ xl_call' = call
    /\ data_frame' = NoFrame
    /\ filtered' = NoFiltered
    /\ steps' = <<>>
    /\ IF call.config_key \in DOMAIN PROCESSING_CONFIGS
       THEN xl_pc' = "configured" /\ xl_error' = NoError
       ELSE /\ xl_pc' = "returned"
            /\ xl_error' = [kind |-> "unknown config", msg |-> "Unknown processing config",
                            cols |-> <<>>]
    /\ UNCHANGED <<disk, filtered_records_file1, filtered_records_file2>>
    /\ UNCHANGED fee_vars

\* the first call of process_excel after the module is imported
XlBegin(calls) ==
    /\ xl_pc = "idle"
    /\ \E call \in calls : Enter(call)
    /\ UNCHANGED main_vars

\* process_excel has returned and is called again in the same process: the
\* locals of the call are new, the files and the module's globals stay
XlAgain(calls) ==
    /\ xl_pc = "returned"
    /\ \E call \in calls : Enter(call)
    /\ UNCHANGED main_vars

\* data_frame = read_input_file(file_path)
XlRead ==
    /\ xl_pc = "configured"
    /\ steps' = Append(steps, "read_input_file")
    /\ \E r \in {read_input_file(xl_call.file)} :
           IF r.ok
           THEN data_frame' = r.df /\ xl_pc' = "read" /\ xl_error' = xl_error
           ELSE /\ data_frame' = data_frame
                /\ xl_pc' = "returned"
                /\ xl_error' = IF r.err = "ValueError"
                               THEN [kind |-> "ValueError", msg |-> "Unsupported file format",
                                     cols |-> <<>>]
                               ELSE [kind |-> "Exception", msg |-> "Input file does not exist",
                                     cols |-> <<>>]
    /\ UNCHANGED <<xl_call, filtered, disk, filtered_records_file1, filtered_records_file2>>
    /\ UNCHANGED <<fee_vars, main_vars>>

\* validate_columns(data_frame, config['required_columns'])
XlValidate ==
    /\ xl_pc = "read"
    /\ steps' = Append(steps, "validate_columns")
    /\ \E missing_cols \in {validate_columns(data_frame, Config.required_columns)} :
           IF missing_cols = <<>>
           THEN xl_pc' = "validated" /\ xl_error' = xl_error
           ELSE /\ xl_pc' = "returned"
                /\ xl_error' = [kind |-> "ValueError", msg |-> "Missing required columns",
                                cols |-> missing_cols]
    /\ UNCHANGED <<xl_call, data_frame, filtered, disk, filtered_records_file1,
                   filtered_records_file2>>
    /\ UNCHANGED <<fee_vars, main_vars>>

\* data_frame = preprocess_data(data_frame, config['sort_by'])
XlPreprocess ==
    /\ xl_pc = "validated"
    /\ steps' = Append(steps, "preprocess_data")
    /\ data_frame' = preprocess_data(data_frame, Config.sort_by)
    /\ xl_pc' = "sorted"
    /\ UNCHANGED <<xl_call, filtered, xl_error, disk, filtered_records_file1,
                   filtered_records_file2>>
    /\ UNCHANGED <<fee_vars, main_vars>>

\* data_frame = apply_count_formula(data_frame, config['count_formula'])
XlApplyFormula ==
    /\ xl_pc = "sorted"
    /\ steps' = Append(steps, "apply_count_formula")
    /\ \E r \in {apply_count_formula(data_frame, Config.count_formula)} :
           IF r.ok
           THEN data_frame' = r.df /\ xl_pc' = "counted" /\ xl_error' = xl_error
           ELSE /\ data_frame' = data_frame
                /\ xl_pc' = "returned"
                /\ xl_error' = [kind |-> "ValueError", msg |-> "count formula", cols |-> <<>>]
    /\ UNCHANGED <<xl_call, filtered, disk, filtered_records_file1, filtered_records_file2>>
    /\ UNCHANGED <<fee_vars, main_vars>>

\* filtered_df, filtered_list = filter_vins_with_count_one(...)
XlFilter ==
    /\ xl_pc = "counted"
    /\ steps' = Append(steps, "filter_vins_with_count_one")
    /\ \E r \in {filter_vins_with_count_one(data_frame, Config.export_columns)} :
           IF r.ok
           THEN /\ filtered' = [final_df |-> r.final_df, record_list |-> r.record_list]
                /\ xl_pc' = "filtered"
                /\ xl_error' = xl_error
           ELSE /\ filtered' = filtered
                /\ xl_pc' = "returned"
                /\ xl_error' = [kind |-> "ValueError", msg |-> "COUNT column not found",
                                cols |-> <<>>]
    /\ UNCHANGED <<xl_call, data_frame, disk, filtered_records_file1, filtered_records_file2>>
    /\ UNCHANGED <<fee_vars, main_vars>>

\* export_dataframe(filtered_df, output_file_path) and, when it returns, the
\* assignment of the global for the config key.  locked: the destination is
\* open in another application.
XlExport ==
    /\ xl_pc = "filtered"
    /\ steps' = Append(steps, "export_dataframe")
    /\ xl_pc' = "returned"
    /\ \E locked \in BOOLEAN :
           IF export_format(xl_call.output_file_path) = ""
           THEN /\ xl_error' = [kind |-> "ValueError", msg |-> "Unsupported file format",
                                cols |-> <<>>]
                /\ UNCHANGED <<disk, filtered_records_file1, filtered_records_file2>>
           ELSE IF locked
           THEN /\ xl_error' = [kind |-> "PermissionError", msg |-> "file access error",
                                cols |-> <<>>]
                /\ UNCHANGED <<disk, filtered_records_file1, filtered_records_file2>>
           ELSE /\ xl_error' = xl_error
                /\ disk' = [disk EXCEPT ![xl_call.output_file_path] =
                               [exists |-> TRUE,
                                columns |-> written(filtered.final_df).columns,
                                rows |-> written(filtered.final_df).rows]]
                /\ filtered_records_file1' =
                       IF xl_call.config_key = "default"
                       THEN [defined |-> TRUE, records |-> filtered.record_list]
                       ELSE filtered_records_file1
                /\ filtered_records_file2' =
                       IF xl_call.config_key = "custom_file_2"
                       THEN [defined |-> TRUE, records |-> filtered.record_list]
                       ELSE filtered_records_file2
    /\ UNCHANGED <<xl_call, data_frame, filtered>>
    /\ UNCHANGED <<fee_vars, main_vars>>

(***************************************************************************)
(* The calls of process_excel the model makes.                             *)
(***************************************************************************)
\* rows of a first-filtration file: VIN, TERM, START DATE, PRICE
DefaultRows ==
    { <<StrCell(<<"A", "1">>), StrCell(<<"1", "2">>), StrCell(<<"2", "0", "2", "4", "-", "0", "1", "-", "0", "1">>), StrCell(<<"1", ".", "6">>)>>,
      <<StrCell(<<"A", "1", " ">>), StrCell(<<"1", "2">>), StrCell(<<"2", "0", "2", "4", "-", "0", "1", "-", "0", "1">>), StrCell(<<"1", ".", "6">>)>>,
      <<StrCell(<<"B", "2">>), StrCell(<<"1", "2">>), StrCell(<<"2", "0", "2", "4", "-", "0", "1", "-", "0", "1">>), StrCell(<<"1", ".", "6">>)>>,
      <<NaN, StrCell(<<"1", "2">>), StrCell(<<"2", "0", "2", "4", "-", "0", "1", "-", "0", "1">>), StrCell(<<"1", ".", "6">>)>>,
      <<StrCell(<<"A", "1">>), StrCell(<<"2", "4">>), StrCell(<<"2", "0", "2", "4", "-", "0", "1", "-", "0", "1">>), StrCell(<<"1", ".", "6">>)>>,
      <<StrCell(<<"A", "1">>), NaN, StrCell(<<"2", "0", "2", "4", "-", "0", "1", "-", "0", "1">>), StrCell(<<"1", ".", "6">>)>>,
      <<StrCell(<<"A", "1">>), StrCell(<<"1", "2">>), StrCell(<<"2", "0", "2", "4", "-", "0", "2", "-", "0", "1">>), StrCell(<<"1", ".", "6">>)>>,
      <<StrCell(<<"A", "1">>), StrCell(<<"1", "2">>), NaN, StrCell(<<"1", ".", "6">>)>>,
      <<StrCell(<<"A", "1">>), StrCell(<<"1", "2">>), StrCell(<<"2", "0", "2", "4", "-", "0", "1", "-", "0", "1">>), StrCell(<<"1", ".", "6", "0">>)>>,
      <<StrCell(<<"A", "1">>), StrCell(<<"1", "2">>), StrCell(<<"2", "0", "2", "4", "-", "0", "1", "-", "0", "1">>), StrCell(<<"2">>)>>,
      <<StrCell(<<"A", "1">>), StrCell(<<"1", "2">>), StrCell(<<"2", "0", "2", "4", "-", "0", "1", "-", "0", "1">>), StrCell(<<"a", "b", "c">>)>>,
      <<StrCell(<<"A", "1">>), StrCell(<<"1", "2">>), StrCell(<<"2", "0", "2", "4", "-", "0", "1", "-", "0", "1">>), NaN>>,
      <<StrCell(<<"B", "2">>), StrCell(<<"1", "2">>), StrCell(<<"2", "0", "2", "4", "-", "0", "1", "-", "0", "1">>), StrCell(<<"2">>)>> }

\* rows of a second-filtration file: FORM, VIN, PURE RISK TYPE
CustomRows ==
    { <<StrCell(<<"F", "1">>), StrCell(<<"A", "1">>), StrCell(<<"K", "E", "Y">>)>>,
      <<StrCell(<<"F", "1">>), StrCell(<<"A", "1">>), StrCell(<<"R", "O", "A", "D", "S", "I", "D", "E">>)>>,
      <<StrCell(<<"F", "1">>), StrCell(<<"A", "1">>), StrCell(<<"R", "o", "a", "d", "s", "i", "d", "e">>)>>,
      <<StrCell(<<"F", "1">>), StrCell(<<"A", "1">>), StrCell(<<"k", "e", "y">>)>>,
      <<StrCell(<<"F", "1">>), StrCell(<<"A", "1">>), StrCell(<<"T", "O", "W">>)>>,
      <<StrCell(<<"F", "1">>), StrCell(<<"A", "1">>), NaN>>,
      <<StrCell(<<"F", "2">>), StrCell(<<"A", "1">>), StrCell(<<"R", "O", "A", "D", "S", "I", "D", "E">>)>>,
      <<StrCell(<<"F", "1">>), StrCell(<<"B", "2">>), StrCell(<<"R", "O", "A", "D", "S", "I", "D", "E">>)>>,
      <<NaN, StrCell(<<"A", "1">>), StrCell(<<"R", "O", "A", "D", "S", "I", "D", "E">>)>>,
      <<StrCell(<<"F", "1">>), NaN, StrCell(<<"R", "O", "A", "D", "S", "I", "D", "E">>)>>,
      <<NaN, StrCell(<<"A", "1">>), StrCell(<<"K", "E", "Y">>)>>,
      <<StrCell(<<"F", "1">>), NaN, StrCell(<<"K", "E", "Y">>)>> }

DefaultHeader == <<<<"V", "i", "n">>, <<"T", "e", "r", "m">>, <<"S", "t", "a", "r", "t", " ", "D", "a", "t", "e">>, <<"P", "r", "i", "c", "e">>>>

CustomHeader == <<<<"F", "o", "r", "m">>, <<"V", "i", "n">>, <<"P", "u", "r", "e", " ", "R", "i", "s", "k", " ", "T", "y", "p", "e">>>>

\* header rows that are spelled differently or lack columns
DefaultHeaderVariants ==
    { <<<<"V", "I", "N">>, <<"T", "E", "R", "M">>, <<"S", "T", "A", "R", "T", " ", "D", "A", "T", "E">>, <<"P", "R", "I", "C", "E">>>>,
      <<<<" ", "v", "i", "n", " ">>, <<"T", "e", "r", "m">>, <<"S", "t", "a", "r", "t", " ", "D", "a", "t", "e">>, <<"P", "r", "i", "c", "e">>>>,
      <<<<"V", "i", "n">>, <<"T", "e", "r", "m">>, <<"S", "t", "a", "r", "t", " ", "D", "a", "t", "e">>>>,
      <<<<"T", "e", "r", "m">>, <<"S", "t", "a", "r", "t", " ", "D", "a", "t", "e">>>>,
      <<<<" ", "v", "i", "n", " ">>, <<"T", "e", "r", "m">>, <<"S", "t", "a", "r", "t", " ", "D", "a", "t", "e">>>>,
      <<<<"V", "i", "n">>, <<"T", "e", "r", "m">>, <<"S", "t", "a", "r", "t", " ", "D", "a", "t", "e">>, <<"P", "r", "i", "c", "e">>, <<"N", "o", "t", "e">>>> }

CustomHeaderVariants ==
    { <<<<"F", "O", "R", "M">>, <<"v", "i", "n">>, <<"p", "u", "r", "e", " ", "r", "i", "s", "k", " ", "t", "y", "p", "e">>>>,
      <<<<"V", "i", "n">>, <<"P", "u", "r", "e", " ", "R", "i", "s", "k", " ", "T", "y", "p", "e">>>> }

FillerRow(header) == [i \in 1..Len(header) |-> StrCell(<<"A", "1">>)]

InputFile(header, rows) == [exists |-> TRUE, ext |-> ".csv", columns |-> header, rows |-> rows]

Call(file, path, key) == [file |-> file, output_file_path |-> path, config_key |-> key]

DataCalls ==
    {Call(InputFile(DefaultHeader, rows), "filtered_vins1.xlsx", "default") :
         rows \in SeqsUpTo(DefaultRows, MaxRows)}
    \cup {Call(InputFile(CustomHeader, rows), "filtered_vins2.csv", "custom_file_2") :
         rows \in SeqsUpTo(CustomRows, MaxRows)}

HeaderCalls ==
    {Call(InputFile(h, <<FillerRow(h)>>), "filtered_vins1.xlsx", "default") :
         h \in DefaultHeaderVariants}
    \cup {Call(InputFile(h, <<FillerRow(h)>>), "filtered_vins2.csv", "custom_file_2") :
         h \in CustomHeaderVariants \cup {DefaultHeader}}

OtherCalls ==
    { Call(InputFile(DefaultHeader, <<>>), "filtered_vins1.xlsx", "custom_file_3"),
      Call(InputFile(DefaultHeader, <<FillerRow(DefaultHeader)>>), "filtered_vins.txt", "default"),
      Call([InputFile(DefaultHeader, <<>>) EXCEPT !.exists = FALSE], "filtered_vins1.xlsx", "default"),
      Call([InputFile(DefaultHeader, <<>>) EXCEPT !.ext = ".txt"], "filtered_vins1.xlsx", "default") }

XlCalls == DataCalls \cup HeaderCalls \cup OtherCalls

\* rows of DefaultRows and CustomRows that differ and tie on the sort keys
SortDefaultRows ==
    { <<StrCell(<<"A", "1">>), StrCell(<<"1", "2">>), StrCell(<<"2", "0", "2", "4", "-", "0", "1", "-", "0", "1">>), StrCell(<<"1", ".", "6">>)>>,
      <<StrCell(<<"A", "1">>), StrCell(<<"2", "4">>), StrCell(<<"2", "0", "2", "4", "-", "0", "1", "-", "0", "1">>), StrCell(<<"1", ".", "6">>)>>,
      <<StrCell(<<"A", "1">>), StrCell(<<"1", "2">>), StrCell(<<"2", "0", "2", "4", "-", "0", "1", "-", "0", "1">>), StrCell(<<"2">>)>>,
      <<StrCell(<<"B", "2">>), StrCell(<<"1", "2">>), StrCell(<<"2", "0", "2", "4", "-", "0", "1", "-", "0", "1">>), StrCell(<<"1", ".", "6">>)>>,
      <<StrCell(<<"B", "2">>), StrCell(<<"1", "2">>), StrCell(<<"2", "0", "2", "4", "-", "0", "1", "-", "0", "1">>), StrCell(<<"2">>)>>,
      <<NaN, StrCell(<<"1", "2">>), StrCell(<<"2", "0", "2", "4", "-", "0", "1", "-", "0", "1">>), StrCell(<<"1", ".", "6">>)>>,
      <<StrCell(<<"A", "1">>), StrCell(<<"1", "2">>), StrCell(<<"2", "0", "2", "4", "-", "0", "1", "-", "0", "1">>), StrCell(<<"a", "b", "c">>)>> }

SortCustomRows ==
    { <<StrCell(<<"F", "1">>), StrCell(<<"A", "1">>), StrCell(<<"K", "E", "Y">>)>>,
      <<StrCell(<<"F", "1">>), StrCell(<<"A", "1">>), StrCell(<<"R", "O", "A", "D", "S", "I", "D", "E">>)>>,
      <<StrCell(<<"F", "1">>), StrCell(<<"A", "1">>), StrCell(<<"k", "e", "y">>)>>,
      <<StrCell(<<"F", "2">>), StrCell(<<"A", "1">>), StrCell(<<"R", "O", "A", "D", "S", "I", "D", "E">>)>>,
      <<StrCell(<<"F", "1">>), StrCell(<<"B", "2">>), StrCell(<<"R", "O", "A", "D", "S", "I", "D", "E">>)>>,
      <<NaN, StrCell(<<"A", "1">>), StrCell(<<"R", "O", "A", "D", "S", "I", "D", "E">>)>>,
      <<StrCell(<<"F", "1">>), NaN, StrCell(<<"K", "E", "Y">>)>> }

SortCalls ==
    {Call(InputFile(DefaultHeader, rows), "filtered_vins1.xlsx", "default") :
         rows \in SeqsUpTo(SortDefaultRows, MaxSortRows)}
    \cup {Call(InputFile(CustomHeader, rows), "filtered_vins2.csv", "custom_file_2") :
         rows \in SeqsUpTo(SortCustomRows, MaxSortRows)}

XlNext ==
    \/ XlBegin(XlCalls)
    \/ XlRead
    \/ XlValidate
    \/ XlPreprocess
    \/ XlApplyFormula
    \/ XlFilter
    \/ XlExport

\* invoice_mailer.main is not running
MainIdle == main_pc = "none" /\ mail_out = "none"

FeeInit ==
    /\ fee_file \in [ext : FeeExts, rows : SeqsUpTo(FeeRows, MaxFeeRows)]
    /\ FeeIdle
    /\ XlIdle
    /\ MainIdle

XlInit ==
    /\ fee_file = [ext |-> ".csv", rows |-> <<>>]
    /\ FeeIdle
    /\ XlIdle
    /\ MainIdle

XlNextSort ==
    \/ XlBegin(SortCalls)
    \/ XlRead
    \/ XlValidate
    \/ XlPreprocess
    \/ XlApplyFormula
    \/ XlFilter
    \/ XlExport

\* process_file on one input file
SpecFee == FeeInit /\ [][FeeNext]_vars

\* one call of process_excel
SpecExcel == XlInit /\ [][XlNext]_vars

\* one call of process_excel on a file of up to MaxSortRows rows that differ
\* and tie on the sort keys
SpecSort == XlInit /\ [][XlNextSort]_vars

(***************************************************************************)
(* Claims about process_excel.                                             *)
(***************************************************************************)
KnownCall == xl_call.config_key \in ConfigKeys

HasCount == KnownCall /\ ColCOUNT \in Range(data_frame.columns)

NRows == Len(data_frame.rows)

\* the COUNT of the row at position i of the DataFrame
CountAt(i) == data_frame.rows[i].cells[col_index(data_frame, ColCOUNT)]

\* the cell the input file holds for the row now at position i, in the k-th
\* required column of the config (the model's files keep the required columns
\* in the config's order)
InCell(i, k) == xl_call.file.rows[data_frame.rows[i].origin][k]

\* rows i and i-1 hold the same text in column k; a missing value equals nothing
SameIn(i, k) ==
    /\ InCell(i, k).t = "str"
    /\ InCell(i - 1, k).t = "str"
    /\ str_strip(InCell(i, k).s) = str_strip(InCell(i - 1, k).s)

\* the text of the cell is the number n / 100
NumberIs(c, n) == c.t = "str" /\ py_float(c.s) = [ok |-> TRUE, v |-> n]

\* the case-folded text of the cell is t
FoldedIs(c, t) == c.t = "str" /\ str_upper(str_strip(c.s)) = t

ScenarioARow == <<StrCell(<<"A", "1">>), StrCell(<<"1", "2">>),
                  StrCell(<<"2", "0", "2", "4", "-", "0", "1", "-", "0", "1">>),
                  StrCell(<<"1", ".", "6">>)>>

\* C4: with the default config, COUNT of row i of the sorted dataset is 1 iff
\* i is not the first row, VIN, TERM and START DATE of row i equal those of
\* row i-1 and PRICE of row i is 1.6; otherwise it is 0.  Two identical rows
\* with PRICE 1.6 get 0 and 1.
C4_ExactMatchFixedTrigger ==
    (HasCount /\ xl_call.config_key = "default") =>
        /\ \A i \in 1..NRows :
               CountAt(i) = IntCell(IF /\ i > 1
                                       /\ SameIn(i, 1) /\ SameIn(i, 2) /\ SameIn(i, 3)
                                       /\ NumberIs(InCell(i, 4), 160)
                                    THEN 1 ELSE 0)
        /\ xl_call.file.rows = <<ScenarioARow, ScenarioARow>> =>
               CountAt(1) = IntCell(0) /\ CountAt(2) = IntCell(1)

\* the sort brought a later input row in front of the row that gets COUNT 1
C4_Witness ==
    /\ HasCount /\ xl_call.config_key = "default"
    /\ \E i \in 2..NRows :
           /\ CountAt(i) = IntCell(1)
           /\ data_frame.rows[i].origin < data_frame.rows[i - 1].origin

\* C5: with the custom_file_2 config, COUNT of row i of the sorted dataset is
\* 1 iff i is not the first row, FORM and VIN of row i equal those of row i-1,
\* and the case-folded PURE RISK TYPE is KEY on row i-1 and ROADSIDE on row i;
\* otherwise it is 0.
C5_CategoryTransition ==
    (HasCount /\ xl_call.config_key = "custom_file_2") =>
        \A i \in 1..NRows :
            CountAt(i) = IntCell(IF /\ i > 1
                                    /\ SameIn(i, 1) /\ SameIn(i, 2)
                                    /\ FoldedIs(InCell(i - 1, 3), TextKEY)
                                    /\ FoldedIs(InCell(i, 3), TextROADSIDE)
                                 THEN 1 ELSE 0)

\* a row of COUNT 1 whose category is ROADSIDE only after case folding
C5_Witness ==
    /\ HasCount /\ xl_call.config_key = "custom_file_2"
    /\ \E i \in 2..NRows :
           CountAt(i) = IntCell(1) /\ InCell(i, 3) # StrCell(TextROADSIDE)

\* the match fields of the formula of the call's config
MatchFields == IF xl_call.config_key = "default" THEN {1, 2, 3} ELSE {1, 2}

NullInBoth(i) ==
    \E k \in MatchFields : InCell(i, k).t = "nan" /\ InCell(i - 1, k).t = "nan"

\* C6: for both formulas, COUNT of the first row is 0, and COUNT of a row
\* i > 0 is 0 whenever some match field is null in row i and in row i-1.
C6_FirstRowAndNulls ==
    HasCount =>
        /\ NRows > 0 => CountAt(1) = IntCell(0)
        /\ \A i \in 2..NRows : NullInBoth(i) => CountAt(i) = IntCell(0)

\* two adjacent rows that agree on every match field, one of which is null in
\* both, and whose triggers hold
C6_Witness ==
    /\ HasCount
    /\ \E i \in 2..NRows :
           /\ NullInBoth(i)
           /\ \A k \in MatchFields : InCell(i, k) = InCell(i - 1, k)
           /\ IF xl_call.config_key = "default"
              THEN NumberIs(InCell(i, 4), 160)
              ELSE FoldedIs(InCell(i - 1, 3), TextKEY) /\ FoldedIs(InCell(i, 3), TextROADSIDE)

\* preprocess_data has run
Sorted == KnownCall /\ "preprocess_data" \in Range(steps)

\* the cell of row i in sort key k, as the DataFrame holds it
KeyCell(i, k) == data_frame.rows[i].cells[col_index(data_frame, Config.sort_by[k].col)]

ValueBelow(x, y) == IF x.t = "str" THEN str_less(x.s, y.s) ELSE x.v < y.v

\* x comes strictly before y in the declared direction; a missing key is the
\* greatest value of an ascending key and the least of a descending one
KeyStrictlyBefore(x, y, asc) ==
    /\ x.t # "nan"
    /\ \/ y.t = "nan"
       \/ (asc /\ ValueBelow(x, y))
       \/ (~asc /\ ValueBelow(y, x))

\* rows i and j are in lexicographic key order
InKeyOrder(i, j) ==
    \/ \A k \in 1..Len(Config.sort_by) : KeyCell(i, k) = KeyCell(j, k)
    \/ \E k \in 1..Len(Config.sort_by) :
           /\ \A m \in 1..(k - 1) : KeyCell(i, m) = KeyCell(j, m)
           /\ KeyStrictlyBefore(KeyCell(i, k), KeyCell(j, k), Config.sort_by[k].asc)

\* the cell preprocess_data leaves for the input cell c of column name
Preprocessed(name, c) ==
    IF c.t = "nan" THEN NaN
    ELSE IF name = ColPRICE
         THEN (IF py_float(c.s).ok THEN FloatCell(py_float(c.s).v) ELSE NaN)
         ELSE StrCell(str_strip(c.s))

\* C7: after preprocess_data every adjacent pair of rows is in lexicographic
\* key order, each key in its declared direction; the rows are a permutation
\* of the input rows; rows equal on every sort key keep their input order.
C7_SortedStable ==
    Sorted =>
        /\ \A i \in 2..NRows : InKeyOrder(i - 1, i)
        /\ NRows = Len(xl_call.file.rows)
        /\ {data_frame.rows[i].origin : i \in 1..NRows} = 1..NRows
        /\ \A i \in 1..NRows : \A k \in 1..Len(xl_call.file.columns) :
               data_frame.rows[i].cells[k] = Preprocessed(data_frame.columns[k], InCell(i, k))
        /\ \A i, j \in 1..NRows :
               (i < j /\ \A k \in 1..Len(Config.sort_by) : KeyCell(i, k) = KeyCell(j, k))
                   => data_frame.rows[i].origin < data_frame.rows[j].origin

\* the sort moved a row, two rows tie on every key, and a descending key decided
C7_Witness ==
    /\ Sorted /\ xl_call.config_key = "default"
    /\ \E i \in 1..NRows : data_frame.rows[i].origin # i
    /\ \E i, j \in 1..NRows :
           i < j /\ \A k \in 1..Len(Config.sort_by) : KeyCell(i, k) = KeyCell(j, k)
    /\ \E i \in 2..NRows :
           /\ KeyCell(i - 1, 1) = KeyCell(i, 1)
           /\ KeyCell(i - 1, 2).t = "float" /\ KeyCell(i, 2).t = "float"
           /\ KeyCell(i - 1, 2).v > KeyCell(i, 2).v

\* C8: preprocess_data followed by apply_count_formula, applied again to the
\* sorted and classified dataset, leaves the row order and every COUNT as the
\* first application left them, for both configs.
C8_Idempotent ==
    (HasCount /\ xl_pc = "counted") =>
        apply_count_formula(preprocess_data(data_frame, Config.sort_by), Config.count_formula)
            = [ok |-> TRUE, df |-> data_frame]

\* a dataset the first application reordered, with rows that tie on every sort
\* key and a row of COUNT 1
C8_Witness ==
    /\ HasCount /\ xl_pc = "counted"
    /\ \E i \in 1..NRows : data_frame.rows[i].origin # i
    /\ \E i, j \in 1..NRows :
           i < j /\ \A k \in 1..Len(Config.sort_by) : KeyCell(i, k) = KeyCell(j, k)
    /\ \E i \in 1..NRows : CountAt(i) = IntCell(1)

\* the file of the call can be read and its config exists
Readable == KnownCall /\ xl_call.file.exists /\ xl_call.file.ext \in {".xlsx", ".csv"}

\* the header row has a column that is name up to letter case and surrounding
\* whitespace
HeaderHas(name) ==
    \E i \in 1..Len(xl_call.file.columns) :
        str_upper(str_strip(xl_call.file.columns[i])) = name

AbsentColumns == {c \in Range(Config.required_columns) : ~HeaderHas(c)}

\* C9: when the header row lacks required columns, process_excel ends with an
\* error that lists exactly the absent required columns, before any sorting,
\* classification or export step, and writes no artifact.
C9_MissingColumnsAbort ==
    (Readable /\ xl_pc = "returned" /\ AbsentColumns # {}) =>
        /\ xl_error.kind = "ValueError"
        /\ xl_error.msg = "Missing required columns"
        /\ Range(xl_error.cols) = AbsentColumns
        /\ steps = <<"read_input_file", "validate_columns">>
        /\ \A p \in OutPaths : ~disk[p].exists

\* C10: a header that differs from a required column name only in letter case
\* or surrounding whitespace gives the canonical uppercase column, so that
\* validate_columns accepts the file.
C10_HeaderInsensitive ==
    (Readable /\ xl_pc \notin {"idle", "configured"}) =>
        /\ \A c \in Range(Config.required_columns) :
               HeaderHas(c) => c \in Range(data_frame.columns)
        /\ AbsentColumns = {} => xl_error.msg # "Missing required columns"

\* filter_vins_with_count_one has returned in this run
Filtered == KnownCall /\ "filter_vins_with_count_one" \in Range(steps)

\* the spellings of the header row of the input file
InputHeaders == Range(xl_call.file.columns)

\* C11: every column header of the exported artifact and of the record list
\* that filter_vins_with_count_one returns is the spelling of a header of the
\* input file; no uppercase key the pipeline introduced is a header of the
\* output.
C11_HeaderRestoration ==
    Filtered =>
        /\ Range(filtered.final_df.columns) \subseteq InputHeaders
        /\ \A r \in 1..Len(filtered.record_list) :
               DOMAIN filtered.record_list[r] \subseteq InputHeaders
        /\ disk[xl_call.output_file_path].exists =>
               Range(disk[xl_call.output_file_path].columns) \subseteq InputHeaders

\* the global that process_excel assigns for the config key of the call
StoredFor(key) ==
    IF key = "default" THEN filtered_records_file1 ELSE filtered_records_file2

\* export_dataframe raised PermissionError in this run
ExportLocked == KnownCall /\ xl_pc = "returned" /\ xl_error.kind = "PermissionError"

\* C12: when export_dataframe fails on a locked destination, no artifact is
\* produced and the filtered record list of the run is still available after
\* process_excel returns, in the global of the run's config key.
C12_ExportLockKeepsResult ==
    ExportLocked =>
        /\ ~disk[xl_call.output_file_path].exists
        /\ StoredFor(xl_call.config_key) =
               [defined |-> TRUE, records |-> filtered.record_list]

(***************************************************************************)
(* invoice_mailer.main: process_excel on the two inputs, then the mail.     *)
(***************************************************************************)
output_file1 == "filtered_vins1.xlsx"
output_file2 == "filtered_vins2.csv"

\* mail_config["attachments"], in order
Attachments == <<output_file1, output_file2>>

\* what main may find at input_file1: a file of the first filtration, a file
\* without its price column, or no file
MailInputs1 ==
    {InputFile(DefaultHeader, rows) : rows \in SeqsUpTo(SortDefaultRows, MaxRows)}
    \cup {InputFile(SubSeq(DefaultHeader, 1, 3), <<>>),
          [InputFile(DefaultHeader, <<>>) EXCEPT !.exists = FALSE]}

\* what main may find at input_file2
MailInputs2 ==
    {InputFile(CustomHeader, rows) : rows \in SeqsUpTo(SortCustomRows, MaxRows)}
    \cup {InputFile(SubSeq(CustomHeader, 1, 2), <<>>),
          [InputFile(CustomHeader, <<>>) EXCEPT !.exists = FALSE]}

\* process_excel(file_path=input_file1, output_file_path=output_file1)
MainCall1 ==
    /\ main_pc = "start"
    /\ xl_pc = "idle"
    /\ \E f \in MailInputs1 : Enter(Call(f, output_file1, "default"))
    /\ main_pc' = "call1"
    /\ UNCHANGED mail_out

\* process_excel(file_path=input_file2, output_file_path=output_file2,
\* config_key="custom_file_2"), once the first call has returned
MainCall2 ==
    /\ main_pc = "call1"
    /\ xl_pc = "returned"
    /\ \E f \in MailInputs2 : Enter(Call(f, output_file2, "custom_file_2"))
    /\ main_pc' = "call2"
    /\ UNCHANGED mail_out

\* send_mail_notification(mail_config): every attachment path is opened before
\* the try block, so a missing file raises FileNotFoundError out of main; an
\* SMTP failure (smtp_ok = FALSE) is caught and printed
send_mail_notification(d, smtp_ok) ==
    IF \E i \in 1..Len(Attachments) : ~d[Attachments[i]].exists
    THEN [raised |-> TRUE, out |-> "FileNotFoundError"]
    ELSE [raised |-> FALSE, out |-> IF smtp_ok THEN "sent" ELSE "Failed to send email"]

MainSendMail ==
    /\ main_pc = "call2"
    /\ xl_pc = "returned"
    /\ \E smtp_ok \in BOOLEAN :
           \E r \in {send_mail_notification(disk, smtp_ok)} :
               /\ main_pc' = IF r.raised THEN "raised" ELSE "done"
               /\ mail_out' = r.out
    /\ UNCHANGED <<fee_vars, xl_vars>>

MainInit ==
    /\ fee_file = [ext |-> ".csv", rows |-> <<>>]
    /\ FeeIdle
    /\ XlIdle
    /\ main_pc = "start"
    /\ mail_out = "none"

MainNext ==
    \/ MainCall1
    \/ XlRead
    \/ XlValidate
    \/ XlPreprocess
    \/ XlApplyFormula
    \/ XlFilter
    \/ XlExport
    \/ MainCall2
    \/ MainSendMail

\* one execution of invoice_mailer.main
SpecMailer == MainInit /\ [][MainNext]_vars

\* main is about to call send_mail_notification
MailAttempted == main_pc = "call2" /\ xl_pc = "returned"

\* C13: when the mail step is attempted every file it attaches exists,
\* whatever the outcome of the two process_excel runs, and a failure of the
\* notification step does not abort the pipeline.
C13_NotificationOrdering ==
    /\ MailAttempted => \A i \in 1..Len(Attachments) : disk[Attachments[i]].exists
    /\ main_pc # "raised"

(***************************************************************************)
(* process_excel called again and again in one process.                    *)
(***************************************************************************)
RunDefaultRows ==
    { <<StrCell(<<"A", "1">>), StrCell(<<"1", "2">>), StrCell(<<"2", "0", "2", "4", "-", "0", "1", "-", "0", "1">>), StrCell(<<"1", ".", "6">>)>>,
      <<StrCell(<<"A", "1">>), StrCell(<<"1", "2">>), StrCell(<<"2", "0", "2", "4", "-", "0", "1", "-", "0", "1">>), StrCell(<<"2">>)>>,
      <<StrCell(<<"B", "2">>), StrCell(<<"1", "2">>), StrCell(<<"2", "0", "2", "4", "-", "0", "1", "-", "0", "1">>), StrCell(<<"1", ".", "6">>)>> }

RunCustomRows ==
    { <<StrCell(<<"F", "1">>), StrCell(<<"A", "1">>), StrCell(<<"K", "E", "Y">>)>>,
      <<StrCell(<<"F", "1">>), StrCell(<<"A", "1">>), StrCell(<<"R", "O", "A", "D", "S", "I", "D", "E">>)>>,
      <<StrCell(<<"F", "1">>), StrCell(<<"B", "2">>), StrCell(<<"R", "O", "A", "D", "S", "I", "D", "E">>)>> }

\* calls that succeed, calls on a file without a required column; XlExport
\* adds the locked destination
RunCalls ==
    {Call(InputFile(DefaultHeader, rows), output_file1, "default") :
         rows \in SeqsUpTo(RunDefaultRows, MaxRows)}
    \cup {Call(InputFile(CustomHeader, rows), output_file2, "custom_file_2") :
         rows \in SeqsUpTo(RunCustomRows, MaxRows)}
    \cup {Call(InputFile(SubSeq(DefaultHeader, 1, 3), <<>>), output_file1, "default"),
          Call(InputFile(SubSeq(CustomHeader, 1, 2), <<>>), output_file2, "custom_file_2")}

RunsNext ==
    \/ XlBegin(RunCalls)
    \/ XlRead
    \/ XlValidate
    \/ XlPreprocess
    \/ XlApplyFormula
    \/ XlFilter
    \/ XlExport
    \/ XlAgain(RunCalls)

\* any sequence of process_excel runs in one process
SpecRuns == XlInit /\ [][RunsNext]_vars

\* the run that has just returned wrote its artifact and stored its list
ExportedThisRun ==
    /\ "export_dataframe" \in Range(steps)
    /\ xl_error = NoError

\* C14: after any sequence of process_excel runs, the exported rows and the
\* stored filtered record list for the config key of the run that has just
\* returned were produced by that run alone; nothing of an earlier run is left.
C14_NoStateAcrossRuns ==
    (KnownCall /\ xl_pc = "returned") =>
        /\ StoredFor(xl_call.config_key).defined =>
               /\ ExportedThisRun
               /\ StoredFor(xl_call.config_key).records = filtered.record_list
        /\ disk[xl_call.output_file_path].exists =>
               /\ ExportedThisRun
               /\ disk[xl_call.output_file_path].columns = written(filtered.final_df).columns
               /\ disk[xl_call.output_file_path].rows = written(filtered.final_df).rows

====
